---- MODULE Spec2Model ----
(***************************************************************************)
(* Model of src/main.py: the command line driver (main), the line chunker  *)
(* (chunk_text) and the per-chunk extraction / aggregation loop            *)
(* (extract_financial_data).                                               *)
(*                                                                         *)
(* A Python string is a sequence of one-character strings.  A response of  *)
(* the completion service is a sequence of lexical tokens, parsed by       *)
(* JsonLoads the way json.loads parses the text they stand for.            *)
(***************************************************************************)
EXTENDS Integers, Sequences, FiniteSets, TLC

VARIABLES
    pc,              \* position of the single thread of control
    argv,            \* sys.argv
    route,           \* which text source adapter main selected
    text,            \* main: text / chunk_text: text
    max_chars,       \* chunk_text: max_chars
    lines,           \* chunk_text: lines
    li,              \* chunk_text: position of the for loop in lines
    chunks,          \* chunk_text: chunks
    current_chunk,   \* chunk_text: current_chunk
    current_length,  \* chunk_text: current_length
    text_chunks,     \* extract_financial_data: text_chunks
    chunk_index,     \* extract_financial_data: chunk_index
    chatgpt_reply,   \* extract_financial_data: chatgpt_reply
    aggregated_data, \* extract_financial_data: aggregated_data
    final_result,    \* extract_financial_data: final_result / main: results
    calls,           \* the prompts' chunks received by the completion service, in order
    stdout,          \* what the process printed, in order
    raised,          \* the exception that ended the process, "none" if none did
    exit_code        \* process exit status, -1 while running

vars == <<pc, argv, route, text, max_chars, lines, li, chunks, current_chunk,
          current_length, text_chunks, chunk_index, chatgpt_reply,
          aggregated_data, final_result, calls, stdout, raised, exit_code>>

chunkVars == <<lines, li, chunks, current_chunk, current_length>>
loopVars == <<text_chunks, chunk_index, chatgpt_reply, aggregated_data, final_result, calls>>

(***************************************************************************)
(* Bounds of the model.                                                    *)
(***************************************************************************)
MaxTextLen == 4
MaxChars == 2

\* line 60: the default of max_chars, which extract_financial_data uses (line 85)
DefaultMaxChars == 3000

NL == "\n"

(***************************************************************************)
(* Python string and list primitives.                                      *)
(***************************************************************************)
RECURSIVE Join(_, _)
\* sep.join(strs)
Join(sep, strs) ==
    IF strs = <<>> THEN <<>>
    ELSE IF Len(strs) = 1 THEN strs[1]
    ELSE strs[1] \o sep \o Join(sep, Tail(strs))

RECURSIVE SplitFrom(_, _, _)
\* the fields of s from position i on, cur being the field under construction
SplitFrom(s, i, cur) ==
    IF i > Len(s) THEN <<cur>>
    ELSE IF s[i] = NL THEN <<cur>> \o SplitFrom(s, i + 1, <<>>)
    ELSE SplitFrom(s, i + 1, Append(cur, s[i]))

\* s.split("\n")
Split(s) == SplitFrom(s, 1, <<>>)

RECURSIVE Concat(_)
\* the concatenation of a list of lists
Concat(ls) == IF ls = <<>> THEN <<>> ELSE ls[1] \o Concat(Tail(ls))

\* s.endswith(suffix)
EndsWith(s, suffix) ==
    /\ Len(s) >= Len(suffix)
    /\ SubSeq(s, Len(s) - Len(suffix) + 1, Len(s)) = suffix

\* s.startswith(prefix)
StartsWith(s, prefix) ==
    /\ Len(s) >= Len(prefix)
    /\ SubSeq(s, 1, Len(prefix)) = prefix

\* sub in s, for strings
IsSubstring(sub, s) ==
    \E i \in 0..(Len(s) - Len(sub)) : SubSeq(s, i + 1, i + Len(sub)) = sub

LowerChar(c) ==
    CASE c = "A" -> "a" [] c = "D" -> "d" [] c = "F" -> "f" [] c = "H" -> "h"
      [] c = "L" -> "l" [] c = "M" -> "m" [] c = "P" -> "p" [] c = "T" -> "t"
      [] OTHER -> c

\* s.lower()
Lower(s) == [i \in 1..Len(s) |-> LowerChar(s[i])]

RECURSIVE IntToStr(_)
\* str(n) for an integer n
IntToStr(n) ==
    IF n < 0 THEN <<"-">> \o IntToStr(0 - n)
    ELSE IF n < 10 THEN <<<<"0", "1", "2", "3", "4", "5", "6", "7", "8", "9">>[n + 1]>>
    ELSE IntToStr(n \div 10) \o IntToStr(n % 10)

SeqsUpTo(S, n) == UNION {[1..k -> S] : k \in 0..n}

(***************************************************************************)
(* Inputs.                                                                 *)
(***************************************************************************)
\* the texts a text source adapter may return
Texts == SeqsUpTo({"a", NL}, MaxTextLen)

DotPdf == <<".", "p", "d", "f">>
DotHtml == <<".", "h", "t", "m", "l">>
Http == <<"h", "t", "t", "p">>
ProgName == <<"m">>

\* the command lines: sys.argv with no argument, or with one of these arguments
Arguments ==
    { <<"a">> \o DotPdf,
      <<"a", ".", "P", "D", "F">>,
      Http \o DotPdf,
      <<"a">> \o DotHtml,
      Http \o <<"a">>,
      <<"H", "T", "T", "P">>,
      <<"a", ".", "t">> }

Argvs == {<<ProgName>>} \cup {<<ProgName, a>> : a \in Arguments}

(***************************************************************************)
(* JSON values, json.loads, json.dumps, str                                *)
(***************************************************************************)
Tok(kind, s, n) == [k |-> kind, s |-> s, n |-> n]
P(c) == Tok(c, <<>>, 0)
S(s) == Tok("str", s, 0)
N(n) == Tok("num", <<>>, n)
W == Tok("word", <<>>, 0)

Val(t, s, n, e) == [t |-> t, s |-> s, n |-> n, e |-> e]
StrV(s) == Val("str", s, 0, <<>>)
NumV(n) == Val("num", <<>>, n, <<>>)
NullV == Val("null", <<>>, 0, <<>>)
BoolV(b) == Val("bool", <<>>, IF b THEN 1 ELSE 0, <<>>)
ListV(e) == Val("list", <<>>, 0, e)
\* a dict keeps its (key, value) pairs in insertion order
DictV(m) == Val("dict", <<>>, 0, m)

ParseError == [ok |-> FALSE, val |-> NullV, next |-> 0]
Parsed(v, i) == [ok |-> TRUE, val |-> v, next |-> i]

\* d[k] = v on the pairs of a dict: a repeated key keeps its place, the last value wins
DictSet(m, k, v) ==
    IF \E i \in 1..Len(m) : m[i].k = k
    THEN [i \in 1..Len(m) |-> IF m[i].k = k THEN [k |-> k, v |-> v] ELSE m[i]]
    ELSE Append(m, [k |-> k, v |-> v])

RECURSIVE ParseValue(_, _), ParseMembers(_, _, _), ParseElements(_, _, _)
\* one JSON value starting at token i
ParseValue(toks, i) ==
    IF i > Len(toks) THEN ParseError
    ELSE LET tk == toks[i] IN
         CASE tk.k = "str" -> Parsed(StrV(tk.s), i + 1)
           [] tk.k = "num" -> Parsed(NumV(tk.n), i + 1)
           [] tk.k = "null" -> Parsed(NullV, i + 1)
           [] tk.k = "true" -> Parsed(BoolV(TRUE), i + 1)
           [] tk.k = "false" -> Parsed(BoolV(FALSE), i + 1)
           [] tk.k = "{" ->
                IF i + 1 <= Len(toks) /\ toks[i + 1].k = "}"
                THEN Parsed(DictV(<<>>), i + 2)
                ELSE ParseMembers(toks, i + 1, <<>>)
           [] tk.k = "[" ->
                IF i + 1 <= Len(toks) /\ toks[i + 1].k = "]"
                THEN Parsed(ListV(<<>>), i + 2)
                ELSE ParseElements(toks, i + 1, <<>>)
           [] OTHER -> ParseError

\* "key": value pairs up to the closing brace, m being the pairs read so far
ParseMembers(toks, i, m) ==
    IF i + 1 > Len(toks) \/ toks[i].k # "str" \/ toks[i + 1].k # ":" THEN ParseError
    ELSE LET r == ParseValue(toks, i + 2) IN
         IF ~r.ok \/ r.next > Len(toks) THEN ParseError
         ELSE LET m2 == DictSet(m, toks[i].s, r.val) IN
              CASE toks[r.next].k = "}" -> Parsed(DictV(m2), r.next + 1)
                [] toks[r.next].k = "," -> ParseMembers(toks, r.next + 1, m2)
                [] OTHER -> ParseError

\* values up to the closing bracket, e being the elements read so far
ParseElements(toks, i, e) ==
    LET r == ParseValue(toks, i) IN
    IF ~r.ok \/ r.next > Len(toks) THEN ParseError
    ELSE CASE toks[r.next].k = "]" -> Parsed(ListV(Append(e, r.val)), r.next + 1)
           [] toks[r.next].k = "," -> ParseElements(toks, r.next + 1, Append(e, r.val))
           [] OTHER -> ParseError

\* json.loads: ok is FALSE where it raises JSONDecodeError (no value, or extra data)
JsonLoads(toks) ==
    LET r == ParseValue(toks, 1) IN
    IF r.ok /\ r.next = Len(toks) + 1 THEN [ok |-> TRUE, val |-> r.val]
    ELSE [ok |-> FALSE, val |-> NullV]

Quoted(q, s) == <<q>> \o s \o <<q>>
CommaSp == <<",", " ">>
ColonSp == <<":", " ">>

RECURSIVE JsonDumps(_), DumpsMembers(_), DumpsElements(_)
\* json.dumps(v), default separators
JsonDumps(v) ==
    CASE v.t = "str" -> Quoted("\"", v.s)
      [] v.t = "num" -> IntToStr(v.n)
      [] v.t = "null" -> <<"n", "u", "l", "l">>
      [] v.t = "bool" -> IF v.n = 1 THEN <<"t", "r", "u", "e">>
                                    ELSE <<"f", "a", "l", "s", "e">>
      [] v.t = "list" -> <<"[">> \o Join(CommaSp, DumpsElements(v.e)) \o <<"]">>
      [] v.t = "dict" -> <<"{">> \o Join(CommaSp, DumpsMembers(v.e)) \o <<"}">>

DumpsMembers(m) ==
    IF m = <<>> THEN <<>>
    ELSE <<Quoted("\"", m[1].k) \o ColonSp \o JsonDumps(m[1].v)>> \o DumpsMembers(Tail(m))

DumpsElements(e) ==
    IF e = <<>> THEN <<>> ELSE <<JsonDumps(e[1])>> \o DumpsElements(Tail(e))

RECURSIVE PyRepr(_), ReprMembers(_), ReprElements(_)
\* repr(v)
PyRepr(v) ==
    CASE v.t = "str" -> Quoted("'", v.s)
      [] v.t = "num" -> IntToStr(v.n)
      [] v.t = "null" -> <<"N", "o", "n", "e">>
      [] v.t = "bool" -> IF v.n = 1 THEN <<"T", "r", "u", "e">>
                                    ELSE <<"F", "a", "l", "s", "e">>
      [] v.t = "list" -> <<"[">> \o Join(CommaSp, ReprElements(v.e)) \o <<"]">>
      [] v.t = "dict" -> <<"{">> \o Join(CommaSp, ReprMembers(v.e)) \o <<"}">>

ReprMembers(m) ==
    IF m = <<>> THEN <<>>
    ELSE <<Quoted("'", m[1].k) \o ColonSp \o PyRepr(m[1].v)>> \o ReprMembers(Tail(m))

ReprElements(e) ==
    IF e = <<>> THEN <<>> ELSE <<PyRepr(e[1])>> \o ReprElements(Tail(e))

\* str(v): a string is itself, anything else its repr
PyStr(v) == IF v.t = "str" THEN v.s ELSE PyRepr(v)

\* bool(v)
Truthy(v) ==
    CASE v.t = "str" -> v.s # <<>>
      [] v.t = "num" -> v.n # 0
      [] v.t = "null" -> FALSE
      [] v.t = "bool" -> v.n = 1
      [] v.t = "list" -> v.e # <<>>
      [] v.t = "dict" -> v.e # <<>>

\* `key in data` raises TypeError on a number, a boolean and None
InRaises(data) == data.t \in {"num", "null", "bool"}

\* key in data
Contains(key, data) ==
    CASE data.t = "dict" -> \E i \in 1..Len(data.e) : data.e[i].k = key
      [] data.t = "list" -> \E i \in 1..Len(data.e) : data.e[i] = StrV(key)
      [] data.t = "str" -> IsSubstring(key, data.s)
      [] OTHER -> FALSE

\* data[key] raises TypeError unless data is a dict
GetRaises(data) == data.t # "dict"

\* data[key], for a dict that holds key
GetItem(data, key) ==
    data.e[CHOOSE i \in 1..Len(data.e) : data.e[i].k = key].v

(***************************************************************************)
(* The fields and the accumulator                                          *)
(***************************************************************************)
Revenue == <<"R", "e", "v", "e", "n", "u", "e">>
Earnings == <<"E", "a", "r", "n", "i", "n", "g", "s">>
OperatingMargin == <<"O", "p", "e", "r", "a", "t", "i", "n", "g",
                     "M", "a", "r", "g", "i", "n">>
RevenueGrowthRates == <<"R", "e", "v", "e", "n", "u", "e",
                        "G", "r", "o", "w", "t", "h", "R", "a", "t", "e", "s">>
Guidance == <<"G", "u", "i", "d", "a", "n", "c", "e">>

\* lines 88-94: the keys of aggregated_data, in insertion order
FieldOrder == <<Revenue, Earnings, OperatingMargin, RevenueGrowthRates, Guidance>>
FieldNames == {FieldOrder[i] : i \in 1..Len(FieldOrder)}

\* lines 88-94
EmptyAggregate == [k \in FieldNames |-> <<>>]

\* the entry stored without the dict branch: str(value) for every non-string
CoerceWithStr(value) == IF value.t # "str" THEN PyStr(value) ELSE value.s

\* lines 124-128: the entry stored for a value
Coerce(value) ==
    IF value.t = "dict" THEN JsonDumps(value)
    ELSE IF value.t # "str" THEN PyStr(value)
    ELSE value.s

\* line 123: the test that lets a field take an entry from data
Yields(key, data) == Contains(key, data) /\ Truthy(GetItem(data, key))

RECURSIVE AccumulateFrom(_, _, _)
\* lines 122-129, from the j-th key on: raised is TRUE where a TypeError escapes
AccumulateFrom(data, agg, j) ==
    IF j > Len(FieldOrder) THEN [raised |-> FALSE, agg |-> agg]
    ELSE LET key == FieldOrder[j] IN
         IF InRaises(data) THEN [raised |-> TRUE, agg |-> agg]
         ELSE IF ~Contains(key, data) THEN AccumulateFrom(data, agg, j + 1)
         ELSE IF GetRaises(data) THEN [raised |-> TRUE, agg |-> agg]
         ELSE IF Yields(key, data)
              THEN AccumulateFrom(data,
                       [agg EXCEPT ![key] = Append(@, Coerce(GetItem(data, key)))], j + 1)
              ELSE AccumulateFrom(data, agg, j + 1)

Accumulate(data, agg) == AccumulateFrom(data, agg, 1)

\* line 133: the text before the placeholder
FailedPrefix ==
    <<"F", "a", "i", "l", "e", "d", " ", "t", "o", " ", "p", "a", "r", "s", "e", " ",
      "J", "S", "O", "N", " ", "i", "n", " ", "c", "h", "u", "n", "k", " ">>

\* the message numbered from one, as if the loop were enumerate(text_chunks, 1)
FailedMessageOneBased(index) == FailedPrefix \o IntToStr(index + 1)

\* line 133: "Failed to parse JSON in chunk {}".format(chunk_index)
FailedMessage(index) == FailedPrefix \o IntToStr(index)

SemiSp == <<";", " ">>

\* the consolidated value joined with ";" alone
ConsolidatedNoSpace(val_list) == IF val_list # <<>> THEN Join(<<";">>, val_list) ELSE <<>>

\* line 138: the consolidated value of one field
Consolidated(val_list) == IF val_list # <<>> THEN Join(SemiSp, val_list) ELSE <<>>

(***************************************************************************)
(* chunk_text                                                              *)
(***************************************************************************)
\* line 69: the overflow test of the loop body
Overflows(cur_len, line_length, max) == cur_len + line_length > max

\* lines 62-66
ChunkBegin ==
    /\ pc = "chunk_text"
    /\ chunks' = <<>>
    /\ current_chunk' = <<>>
    /\ current_length' = 0
    /\ lines' = Split(text)
    /\ li' = 1
    /\ pc' = "chunk_loop"
    /\ UNCHANGED <<argv, route, text, max_chars, loopVars, stdout, raised, exit_code>>

\* lines 67-76: one iteration of the for loop
ChunkLine ==
    /\ pc = "chunk_loop"
    /\ li <= Len(lines)
    /\ LET line == lines[li]
           line_length == Len(line)
       IN  IF Overflows(current_length, line_length, max_chars)
           THEN /\ chunks' = Append(chunks, Join(<<NL>>, current_chunk))
                /\ current_chunk' = <<line>>
                /\ current_length' = line_length
           ELSE /\ chunks' = chunks
                /\ current_chunk' = Append(current_chunk, line)
                /\ current_length' = current_length + line_length
    /\ li' = li + 1
    /\ UNCHANGED <<pc, argv, route, text, max_chars, lines, loopVars, stdout, raised, exit_code>>

\* lines 78-82, and the caller's lines 85-94: the last chunk is added, chunk_text
\* returns, and extract_financial_data creates the empty aggregated_data
ChunkEnd ==
    /\ pc = "chunk_loop"
    /\ li > Len(lines)
    /\ LET result == IF current_chunk # <<>>
                     THEN Append(chunks, Join(<<NL>>, current_chunk))
                     ELSE chunks
       IN  /\ chunks' = result
           /\ text_chunks' = result
    /\ aggregated_data' = EmptyAggregate
    /\ chunk_index' = 0
    /\ pc' = "extract_loop"
    /\ UNCHANGED <<argv, route, text, max_chars, lines, li, current_chunk,
                   current_length, chatgpt_reply, final_result, calls, stdout, raised, exit_code>>

(***************************************************************************)
(* The completion service                                                  *)
(***************************************************************************)
Str1M == <<"1", "M">>

\* {"Revenue": "1M", "Earnings": "", "OperatingMargin": [], "Guidance": false}
RespRevenue ==
    <<P("{"), S(Revenue), P(":"), S(Str1M), P(","), S(Earnings), P(":"), S(<<>>), P(","),
      S(OperatingMargin), P(":"), P("["), P("]"), P(","),
      S(Guidance), P(":"), P("false"), P("}")>>

\* {"Revenue": {"q": 2}, "Earnings": 0, "OperatingMargin": null,
\*  "RevenueGrowthRates": [1, "a"], "Guidance": {}, "Other": "x"}
RespMixed ==
    <<P("{"), S(Revenue), P(":"), P("{"), S(<<"q">>), P(":"), N(2), P("}"), P(","),
      S(Earnings), P(":"), N(0), P(","),
      S(OperatingMargin), P(":"), P("null"), P(","),
      S(RevenueGrowthRates), P(":"), P("["), N(1), P(","), S(<<"a">>), P("]"), P(","),
      S(Guidance), P(":"), P("{"), P("}"), P(","),
      S(<<"O", "t", "h", "e", "r">>), P(":"), S(<<"x">>), P("}")>>

\* {"Guidance": 7, "Earnings": true}
RespScalars ==
    <<P("{"), S(Guidance), P(":"), N(7), P(","), S(Earnings), P(":"), P("true"), P("}")>>

\* I cannot extract this.
RespProse == <<W, W, W, W>>

\* {"Revenue": "1M"       (cut short)
RespTruncated == <<P("{"), S(Revenue), P(":"), S(Str1M)>>

\* 5
RespNumber == <<N(5)>>

\* null
RespNull == <<P("null")>>

\* "x"
RespString == <<S(<<"x">>)>>

\* "Revenue: 1M"
RespStringWithKey == <<S(Revenue \o <<":", " ">> \o Str1M)>>

\* []
RespEmptyList == <<P("["), P("]")>>

\* ["Revenue"]
RespListWithKey == <<P("["), S(Revenue), P("]")>>

\* the replies the completion service may give
Responses ==
    { RespRevenue, RespMixed, RespScalars, RespProse, RespTruncated, RespNumber, RespNull,
      RespString, RespStringWithKey, RespEmptyList, RespListWithKey }

(***************************************************************************)
(* extract_financial_data                                                  *)
(***************************************************************************)
\* one call received by the completion service: the chunk in its prompt, and whether
\* the service answered it
Call(chunk, ok) == [chunk |-> chunk, ok |-> ok]

\* one item printed on standard output: its kind, and for a raw reply the reply
Out(kind) == [k |-> kind, r |-> <<>>]
Raw(reply) == [k |-> "raw", r |-> reply]

\* line 96: the chunk the loop is at
CurrentChunk == text_chunks[chunk_index + 1]

\* lines 96-115: the call returns a reply
CallExtractor ==
    /\ pc = "extract_loop"
    /\ chunk_index < Len(text_chunks)
    /\ calls' = Append(calls, Call(CurrentChunk, TRUE))
    /\ \E r \in Responses :
           /\ chatgpt_reply' = r
           /\ stdout' = Append(stdout, Raw(r))
    /\ pc' = "parse"
    /\ UNCHANGED <<argv, route, text, max_chars, chunkVars, text_chunks, chunk_index,
                   aggregated_data, final_result, raised, exit_code>>

\* the call raises and the failure is swallowed: the loop goes on with the next chunk
ExtractorFailureSwallowed ==
    /\ pc = "extract_loop"
    /\ chunk_index < Len(text_chunks)
    /\ calls' = Append(calls, Call(CurrentChunk, FALSE))
    /\ chunk_index' = chunk_index + 1
    /\ UNCHANGED <<pc, argv, route, text, max_chars, chunkVars, text_chunks,
                   chatgpt_reply, aggregated_data, final_result, stdout, raised, exit_code>>

\* lines 101-108: the call raises (network, authentication, quota); nothing catches it
ExtractorRaises ==
    /\ pc = "extract_loop"
    /\ chunk_index < Len(text_chunks)
    /\ calls' = Append(calls, Call(CurrentChunk, FALSE))
    /\ raised' = "ServiceError"
    /\ pc' = "crashed"
    /\ exit_code' = 1
    /\ UNCHANGED <<argv, route, text, max_chars, chunkVars, text_chunks, chunk_index,
                   chatgpt_reply, aggregated_data, final_result, stdout>>

\* lines 119-120, 131-134: json.loads raises JSONDecodeError
ParseFail ==
    /\ pc = "parse"
    /\ ~JsonLoads(chatgpt_reply).ok
    /\ aggregated_data' =
           [aggregated_data EXCEPT ![Revenue] = Append(@, FailedMessage(chunk_index))]
    /\ chunk_index' = chunk_index + 1
    /\ pc' = "extract_loop"
    /\ UNCHANGED <<argv, route, text, max_chars, chunkVars, text_chunks, chatgpt_reply,
                   final_result, calls, stdout, raised, exit_code>>

\* lines 119-130: json.loads returns and the loop over the keys completes
ParseAccumulate ==
    /\ pc = "parse"
    /\ JsonLoads(chatgpt_reply).ok
    /\ LET a == Accumulate(JsonLoads(chatgpt_reply).val, aggregated_data)
       IN  /\ ~a.raised
           /\ aggregated_data' = a.agg
    /\ chunk_index' = chunk_index + 1
    /\ pc' = "extract_loop"
    /\ UNCHANGED <<argv, route, text, max_chars, chunkVars, text_chunks, chatgpt_reply,
                   final_result, calls, stdout, raised, exit_code>>

\* lines 119-130: json.loads returns and the loop over the keys raises TypeError,
\* which `except json.JSONDecodeError` does not catch
ParseTypeError ==
    /\ pc = "parse"
    /\ JsonLoads(chatgpt_reply).ok
    /\ LET a == Accumulate(JsonLoads(chatgpt_reply).val, aggregated_data)
       IN  /\ a.raised
           /\ aggregated_data' = a.agg
    /\ raised' = "TypeError"
    /\ pc' = "crashed"
    /\ exit_code' = 1
    /\ UNCHANGED <<argv, route, text, max_chars, chunkVars, text_chunks, chunk_index,
                   chatgpt_reply, final_result, calls, stdout>>

\* lines 136-142
Consolidate ==
    /\ pc = "extract_loop"
    /\ chunk_index >= Len(text_chunks)
    /\ final_result' = [key \in DOMAIN aggregated_data |-> Consolidated(aggregated_data[key])]
    /\ pc' = "returned"
    /\ UNCHANGED <<argv, route, text, max_chars, chunkVars, text_chunks, chunk_index,
                   chatgpt_reply, aggregated_data, calls, stdout, raised, exit_code>>

(***************************************************************************)
(* The text source adapters                                                *)
(***************************************************************************)
MaxPages == 2

\* what page.extract_text() may return: None or a text
PageTexts == {<<>>, <<"a">>}

RECURSIVE ExtractTextFromPdf(_)
\* lines 36-42, over the pages' texts
ExtractTextFromPdf(pages) ==
    IF pages = <<>> THEN <<>>
    ELSE (IF pages[1] # <<>> THEN pages[1] \o <<NL>> ELSE <<>>)
         \o ExtractTextFromPdf(Tail(pages))

PdfTexts == {ExtractTextFromPdf(pages) : pages \in SeqsUpTo(PageTexts, MaxPages)}

(***************************************************************************)
(* main                                                                    *)
(***************************************************************************)
\* line 145
NoArgument(av) == Len(av) < 2

\* the suffix test without .lower()
IsPdfCaseSensitive(input_path) == EndsWith(input_path, DotPdf)

\* line 152
IsPdf(input_path) == EndsWith(Lower(input_path), DotPdf)

\* line 155
IsHtml(input_path) == EndsWith(Lower(input_path), DotHtml) \/ StartsWith(input_path, Http)

\* lines 145-147
MainUsage ==
    /\ pc = "main"
    /\ NoArgument(argv)
    /\ stdout' = Append(stdout, Out("usage"))
    /\ exit_code' = 1
    /\ pc' = "exited"
    /\ UNCHANGED <<argv, route, text, max_chars, chunkVars, loopVars, raised>>

\* lines 149-154, 163-167: the PDF adapter returns the pages' text
MainPdf ==
    /\ pc = "main"
    /\ ~NoArgument(argv)
    /\ IsPdf(argv[2])
    /\ route' = "pdf"
    /\ \E t \in PdfTexts : text' = t
    /\ stdout' = stdout \o <<Out("detected_pdf"), Out("length"), Out("extracting")>>
    /\ pc' = "chunk_text"
    /\ UNCHANGED <<argv, max_chars, chunkVars, loopVars, raised, exit_code>>

\* lines 149-157, 163-167: the HTML adapter returns the document's text
MainHtml ==
    /\ pc = "main"
    /\ ~NoArgument(argv)
    /\ ~IsPdf(argv[2])
    /\ IsHtml(argv[2])
    /\ route' = "html"
    /\ \E t \in Texts : text' = t
    /\ stdout' = stdout \o <<Out("detected_html"), Out("length"), Out("extracting")>>
    /\ pc' = "chunk_text"
    /\ UNCHANGED <<argv, max_chars, chunkVars, loopVars, raised, exit_code>>

\* lines 154, 157: the selected adapter raises (no such file, HTTP error); nothing
\* catches it
MainSourceRaises ==
    /\ pc = "main"
    /\ ~NoArgument(argv)
    /\ IsPdf(argv[2]) \/ IsHtml(argv[2])
    /\ route' = IF IsPdf(argv[2]) THEN "pdf" ELSE "html"
    /\ stdout' = Append(stdout, Out(IF IsPdf(argv[2]) THEN "detected_pdf" ELSE "detected_html"))
    /\ raised' = "SourceError"
    /\ exit_code' = 1
    /\ pc' = "crashed"
    /\ UNCHANGED <<argv, text, max_chars, chunkVars, loopVars>>

\* lines 158-160
MainUnknown ==
    /\ pc = "main"
    /\ ~NoArgument(argv)
    /\ ~IsPdf(argv[2])
    /\ ~IsHtml(argv[2])
    /\ stdout' = Append(stdout, Out("unknown"))
    /\ exit_code' = 1
    /\ pc' = "exited"
    /\ UNCHANGED <<argv, route, text, max_chars, chunkVars, loopVars, raised>>

\* lines 169-172, and the normal end of the process
MainPrint ==
    /\ pc = "returned"
    /\ stdout' = Append(stdout, Out("final"))
    /\ exit_code' = 0
    /\ pc' = "exited"
    /\ UNCHANGED <<argv, route, text, max_chars, chunkVars, loopVars, raised>>

(***************************************************************************)
(* The specification                                                       *)
(***************************************************************************)
\* the state when main is entered.  chunk_text is run with its default threshold
\* and with every small threshold, which makes texts of a few characters overflow
\* the way texts of thousands of characters overflow the default
Init ==
    /\ pc = "main"
    /\ argv \in Argvs
    /\ route = "none"
    /\ text = <<>>
    /\ max_chars \in (1..MaxChars) \cup {DefaultMaxChars}
    /\ lines = <<>>
    /\ li = 1
    /\ chunks = <<>>
    /\ current_chunk = <<>>
    /\ current_length = 0
    /\ text_chunks = <<>>
    /\ chunk_index = 0
    /\ chatgpt_reply = <<>>
    /\ aggregated_data = EmptyAggregate
    /\ final_result = <<>>
    /\ calls = <<>>
    /\ stdout = <<>>
    /\ raised = "none"
    /\ exit_code = -1

Next ==
    \/ MainUsage
    \/ MainPdf
    \/ MainHtml
    \/ MainSourceRaises
    \/ MainUnknown
    \/ ChunkBegin
    \/ ChunkLine
    \/ ChunkEnd
    \/ CallExtractor
    \/ ExtractorRaises
    \/ ParseFail
    \/ ParseAccumulate
    \/ ParseTypeError
    \/ Consolidate
    \/ MainPrint

Spec == Init /\ [][Next]_vars

(***************************************************************************)
(* Properties                                                              *)
(***************************************************************************)
\* chunk_text has returned to extract_financial_data
Chunked ==
    \/ pc \in {"extract_loop", "parse", "returned"}
    \/ pc = "exited" /\ exit_code = 0
    \/ pc = "crashed" /\ raised # "SourceError"

\* the process has ended
Ended == pc \in {"exited", "crashed"}

Printed(kind) == \E i \in 1..Len(stdout) : stdout[i].k = kind

IsRaw(o) == o.k = "raw"
\* the raw replies printed so far, in order: the i-th is the reply for chunk i - 1
Replies == SelectSeq(stdout, IsRaw)

AllCallsAnswered == \A i \in 1..Len(calls) : calls[i].ok

\* C1 - Chunk coverage: splitting each chunk returned by chunk_text on newline and
\* concatenating those line lists in chunk order yields exactly text.split("\n").
C1_ChunkCoverage ==
    Chunked => Concat([i \in 1..Len(chunks) |-> Split(chunks[i])]) = Split(text)

\* C2 - Chunk size bound: every chunk returned by chunk_text has a length (newline
\* separators included) of at most max_chars, except a chunk that consists of one
\* single line whose own length exceeds max_chars.
C2_ChunkSizeBound ==
    Chunked =>
        \A i \in 1..Len(chunks) :
            \/ Len(chunks[i]) <= max_chars
            \/ Len(Split(chunks[i])) = 1 /\ Len(chunks[i]) > max_chars

\* C8 - Chunk closing only when non-empty: every chunk closed so far holds at least
\* one of the lines consumed so far, and a text that is exactly one line longer than
\* max_chars produces exactly one chunk, equal to that whole line.
C8_CloseOnlyNonEmpty ==
    /\ pc = "chunk_loop" => Len(chunks) + Len(current_chunk) <= li - 1
    /\ Chunked => Len(chunks) <= Len(lines)
    /\ Chunked /\ Len(lines) = 1 /\ Len(lines[1]) > max_chars => chunks = <<lines[1]>>

\* replies that are not JSON
C3_Unparseable == {RespProse, RespTruncated}

\* the string "Failed to parse JSON in chunk i", for i < 10
C3_FailedEntry(i) ==
    <<"F", "a", "i", "l", "e", "d", " ", "t", "o", " ", "p", "a", "r", "s", "e", " ",
      "J", "S", "O", "N", " ", "i", "n", " ", "c", "h", "u", "n", "k", " ",
      <<"0", "1", "2", "3", "4", "5", "6", "7", "8", "9">>[i + 1]>>

C6_Present(data, k) == \E i \in 1..Len(data.e) : data.e[i].k = k
C6_Value(data, k) == data.e[CHOOSE i \in 1..Len(data.e) : data.e[i].k = k].v

\* a non-empty value: a non-empty string, a non-zero number, a non-empty object or
\* list, true; not the empty string, zero, null, the empty object or list, false
C6_NonEmpty(v) ==
    \/ v.t = "str" /\ v.s # <<>>
    \/ v.t = "num" /\ v.n # 0
    \/ v.t \in {"dict", "list"} /\ v.e # <<>>
    \/ v.t = "bool" /\ v.n = 1

\* an object as its JSON serialization, a string as itself, anything else as its
\* string representation
C6_AsString(v) ==
    CASE v.t = "dict" -> JsonDumps(v)
      [] v.t = "str" -> v.s
      [] OTHER -> PyStr(v)

\* the entries field k takes from a parsed object: one or none
C6_Entries(data, k) ==
    IF C6_Present(data, k) /\ C6_NonEmpty(C6_Value(data, k))
    THEN <<C6_AsString(C6_Value(data, k))>>
    ELSE <<>>

\* C6 - Partial-value accumulation and coercion: when the reply for chunk i parses as
\* a JSON object, each of the five fields receives exactly one entry if the object
\* holds that key with a non-empty value and none otherwise; the entry is a string:
\* the JSON serialization of an object value, the string representation of any other
\* non-string value. Keys outside the five fields create no entry.
C6_PartialAccumulation ==
    [][ pc = "parse" /\ JsonLoads(chatgpt_reply).ok /\ JsonLoads(chatgpt_reply).val.t = "dict" =>
          /\ DOMAIN aggregated_data' = FieldNames
          /\ \A k \in FieldNames :
                 aggregated_data'[k] =
                     aggregated_data[k] \o C6_Entries(JsonLoads(chatgpt_reply).val, k)
          /\ chunk_index' = chunk_index + 1
          /\ pc' = "extract_loop" ]_vars

\* after {"Revenue": {"q": 2}, "Earnings": 0, "OperatingMargin": null,
\* "RevenueGrowthRates": [1, "a"], "Guidance": {}, "Other": "x"} for chunk 0
C6_Witness ==
    /\ pc = "extract_loop"
    /\ chunk_index = 1
    /\ chatgpt_reply = RespMixed
    /\ aggregated_data[Revenue] = << <<"{", "\"", "q", "\"", ":", " ", "2", "}">> >>
    /\ aggregated_data[RevenueGrowthRates] = << <<"[", "1", ",", " ", "'", "a", "'", "]">> >>
    /\ aggregated_data[Earnings] = <<>>
    /\ aggregated_data[OperatingMargin] = <<>>
    /\ aggregated_data[Guidance] = <<>>

\* the entries field k takes from the reply for chunk index
C4_EntriesOf(reply, k, index) ==
    IF ~JsonLoads(reply).ok
    THEN IF k = Revenue THEN <<C3_FailedEntry(index)>> ELSE <<>>
    ELSE IF JsonLoads(reply).val.t = "dict" THEN C6_Entries(JsonLoads(reply).val, k)
    ELSE <<>>

RECURSIVE C4_Accumulated(_, _)
\* the entries of field k from the replies for chunks 0 .. n - 1, in chunk order
C4_Accumulated(k, n) ==
    IF n = 0 THEN <<>>
    ELSE C4_Accumulated(k, n - 1) \o C4_EntriesOf(Replies[n].r, k, n - 1)

\* C4 - Final join: the record returned after all chunks has exactly the five keys;
\* each value is the field's entries joined with "; " in chunk order, and "" when the
\* field has no entry.
C4_FinalJoin ==
    pc = "returned" \/ (pc = "exited" /\ exit_code = 0) =>
        /\ DOMAIN final_result = FieldNames
        /\ Len(Replies) = Len(text_chunks)
        /\ \A k \in FieldNames :
               LET entries == C4_Accumulated(k, Len(text_chunks))
               IN  /\ aggregated_data[k] = entries
                   /\ final_result[k] = IF entries = <<>> THEN <<>>
                                        ELSE Join(<<";", " ">>, entries)

\* Revenue is `{"q": 2}; 1M`, from chunks 0 and 1 in that order
C4_Witness ==
    /\ pc = "returned"
    /\ final_result[Revenue] =
           <<"{", "\"", "q", "\"", ":", " ", "2", "}", ";", " ", "1", "M">>
    /\ final_result[Earnings] = <<>>

\* C5 - One call per chunk, in order: the k-th call carries the k-th chunk, call
\* k + 1 starts only after reply k has been handled, a run in which no extractor call
\* fails makes as many calls as there are chunks, and the empty text gives one empty
\* chunk.
C5_OneCallPerChunk ==
    /\ Len(calls) <= Len(text_chunks)
    /\ \A i \in 1..Len(calls) : calls[i].chunk = text_chunks[i]
    /\ pc = "extract_loop" => Len(calls) = chunk_index
    /\ pc = "parse" => Len(calls) = chunk_index + 1
    /\ Chunked /\ text = <<>> => text_chunks = << <<>> >>
    /\ Ended /\ Chunked /\ AllCallsAnswered => Len(calls) = Len(text_chunks)

\* C9 - Pipeline always completes on returned responses: whatever the replies hold, a
\* run in which the text source and every extractor call answered does not crash, and
\* when it has ended it has returned and printed a record.
C9_AlwaysCompletes ==
    AllCallsAnswered /\ raised # "SourceError" =>
        /\ pc # "crashed"
        /\ pc = "exited" /\ route # "none" => Printed("final") /\ exit_code = 0

\* C10 - Extractor failure is fatal: once the call for chunk i has failed the process
\* has crashed: that call is the last one, the entries are those of the chunks before
\* i, and no record has been returned or printed.
C10_ExtractorFailureFatal ==
    \A i \in 1..Len(calls) :
        ~calls[i].ok =>
            /\ i = Len(calls)
            /\ pc = "crashed"
            /\ raised = "ServiceError"
            /\ exit_code = 1
            /\ chunk_index = i - 1
            /\ Len(Replies) = i - 1
            /\ \A k \in FieldNames : aggregated_data[k] = C4_Accumulated(k, i - 1)
            /\ final_result = <<>>
            /\ ~Printed("final")

C10_Witness ==
    /\ pc = "crashed"
    /\ Len(calls) = 2
    /\ calls[1].ok
    /\ ~calls[2].ok
    /\ aggregated_data[Revenue] = <<Str1M>>
    /\ final_result = <<>>

C7_HasArgument == Len(argv) >= 2
C7_EndsPdf == C7_HasArgument /\ EndsWith(Lower(argv[2]), <<".", "p", "d", "f">>)
C7_MarkupShaped ==
    /\ C7_HasArgument
    /\ \/ EndsWith(Lower(argv[2]), <<".", "h", "t", "m", "l">>)
       \/ StartsWith(argv[2], <<"h", "t", "t", "p">>)

\* the usage-error path: the error is reported, the exit code is 1, and no text was
\* extracted, nothing chunked, no call made, no record printed
C7_UsageErrorPath ==
    /\ pc = "exited"
    /\ exit_code = 1
    /\ route = "none"
    /\ stdout \in {<<Out("usage")>>, <<Out("unknown")>>}
    /\ text = <<>> /\ lines = <<>> /\ chunks = <<>> /\ text_chunks = <<>>
    /\ calls = <<>>
    /\ final_result = <<>>

\* C7 as stated - Input classification and usage error: an argument ending in .pdf
\* goes to document-text extraction, an argument ending in .html or beginning with
\* http goes to markup-text extraction, anything else takes the usage-error path; a
\* record is printed only off that path.
C7_InputClassification ==
    pc # "main" =>
        /\ C7_EndsPdf => route = "pdf"
        /\ C7_MarkupShaped => route = "html"
        /\ ~C7_EndsPdf /\ ~C7_MarkupShaped => C7_UsageErrorPath
        /\ Printed("final") => route # "none" /\ exit_code = 0

\* C7 as amended - the .pdf suffix is tested first: an argument ending in .pdf goes to
\* document-text extraction even when it begins with http; any other argument ending
\* in .html or beginning with http goes to markup-text extraction; anything else takes
\* the usage-error path; a record is printed only off that path.
C7_InputClassificationPdfFirst ==
    pc # "main" =>
        /\ C7_EndsPdf => route = "pdf"
        /\ ~C7_EndsPdf /\ C7_MarkupShaped => route = "html"
        /\ ~C7_EndsPdf /\ ~C7_MarkupShaped => C7_UsageErrorPath
        /\ Printed("final") => route # "none" /\ exit_code = 0

\* main has exited on an argument that is neither
C7_Witness ==
    /\ argv = <<ProgName, <<"a", ".", "t">>>>
    /\ pc = "exited"
    /\ exit_code = 1
    /\ stdout = <<Out("unknown")>>
    /\ calls = <<>>

====
